---- MODULE Spec2Model ----
(***************************************************************************)
(* Model of the Zerynth driver for the Vishay VCNL4200 (src/vcnl4200.py).  *)
(*                                                                         *)
(* The driver is sequential and synchronous.  Every public method is one   *)
(* action.  The I2C port is the environment: each bus transaction either   *)
(* succeeds or raises, and a raise propagates through every frame of the   *)
(* driver because the source has no try/except.  The bus traffic is kept   *)
(* in `log`, one record per transaction attempted, tagged with the number  *)
(* of the driver call that issued it (0 is the constructor).               *)
(***************************************************************************)
EXTENDS Integers, Sequences, FiniteSets

VARIABLES phase, log, nops, last, ret, err

vars == <<phase, log, nops, last, ret, err>>

(* ---------------- module constants, vcnl4200.py:20-31 ------------------ *)
DEFAULT_I2C_ADDR == 81      \* 0x51
REG_ALS_DATA == 9
REG_PS_DATA == 8
REG_ALS_CONF == 0
REG_PS_CONF_1_2 == 3
REG_PS_CONF_3 == 4
DEFAULT_ALS_CONF == 0       \* 0b00000000
DEFAULT_PS_CONF1 == 202     \* 0b11001010 = 0xCA
DEFAULT_PS_CONF2 == 8       \* 0b00001000
DEFAULT_PS_CONF3 == 0       \* 0b00000000

(* ---------------- bounds and input samples ----------------------------- *)
\* Number of method calls made on a constructed device.
MaxOps == 2

Byte == 0 .. 255
\* Configuration bytes the caller passes in the lifetime specification.
ConfBytes == {7, 202}
\* Bytes the stubbed bus answers in the lifetime specification.
DataBytes == {18, 52}
\* I2C ports, addresses and clock rates the caller may pass.
Drvsels == {0}
Addresses == {41}
Clocks == {100000, 400000}
Keywords == {"ps", "als", "address", "clk"}

(* ---------------- the interpreter state --------------------------------
   m.log     transactions attempted so far
   m.fail    the fail-th upcoming transaction raises (0: none does)
   m.raised  an exception is propagating
   m.resp    the two bytes the bus answers to a write_read
   m.call    number of the driver call being executed
   m.val     value returned by the innermost call
   ------------------------------------------------------------------------ *)
Transact(m, op, data) ==
    [m EXCEPT !.log = Append(@, [op |-> op, data |-> data,
                                 ok |-> m.fail # 1, call |-> m.call]),
              !.fail = IF @ > 0 THEN @ - 1 ELSE 0,
              !.raised = (m.fail = 1)]

\* i2c.I2C(drvsel, address, clk) followed by port.start()
port_start(m, drvsel, address, clk) ==
    Transact(m, "start", <<drvsel, address, clk>>)

\* Variant: a write that raised is issued a second time.
port_write_retries(m, bytes) ==
    LET m1 == Transact(m, "write", bytes)
    IN  IF m1.raised THEN Transact(m1, "write", bytes) ELSE m1

\* port.write(bytes)
port_write(m, bytes) == Transact(m, "write", bytes)

\* port.write_read(address, n): the answer is m.resp unless the bus raises
port_write_read(m, address, n) ==
    LET m1 == Transact(m, "write_read", <<address, n>>)
    IN  [m1 EXCEPT !.val = IF m1.raised THEN <<>> ELSE m.resp]

\* Variant: the high byte is left out of the payload when not given.
_write_register_no_default(m, args) == port_write(m, args)

\* def _write_register(self, address, low_byte, high_byte=0x00)
\* args is the positional argument list, of length 2 or 3.
_write_register(m, args) ==
    LET address == args[1]
        low_byte == args[2]
        high_byte == IF Len(args) >= 3 THEN args[3] ELSE 0
    IN  port_write(m, <<address, low_byte, high_byte>>)

\* Variant: the two bytes are decoded high byte first.
_read_register_big_endian(m, address) ==
    LET m1 == port_write_read(m, address, 2)
        data == m1.val
    IN  IF m1.raised THEN m1
        ELSE [m1 EXCEPT !.val = <<data[1] * 256 + data[2]>>]

\* Variant: the port is started again before every register read.
_read_register_restarts(m, address) ==
    LET m0 == port_start(m, 0, DEFAULT_I2C_ADDR, 100000)
        m1 == port_write_read(m0, address, 2)
        data == m1.val
    IN  IF m0.raised THEN m0
        ELSE IF m1.raised THEN m1
        ELSE [m1 EXCEPT !.val = <<data[1] + data[2] * 256>>]

\* def _read_register(self, address)
_read_register(m, address) ==
    LET m1 == port_write_read(m, address, 2)
        data == m1.val
    IN  IF m1.raised THEN m1
        ELSE [m1 EXCEPT !.val = <<data[1] + data[2] * 256>>]

\* Variant: the distance is read from the ALS data register.
get_distance_reads_als(m) == _read_register(m, REG_ALS_DATA)

\* def get_distance(self)
get_distance(m) == _read_register(m, REG_PS_DATA)

\* def get_ambient_light(self)
get_ambient_light(m) == _read_register(m, REG_ALS_DATA)

\* Variant: PS_CONF_3 is written before PS_CONF_1_2.
configure_proximity_sensor_conf3_first(m, conf1, conf2, conf3) ==
    LET m1 == _write_register(m, <<REG_PS_CONF_3, conf3>>)
    IN  IF m1.raised THEN m1
        ELSE LET m2 == _write_register(m1, <<REG_PS_CONF_1_2, conf1, conf2>>)
             IN  IF m2.raised THEN m2 ELSE [m2 EXCEPT !.val = <<>>]

\* Variant: an error of the PS_CONF_3 write is caught and dropped.
configure_proximity_sensor_swallows(m, conf1, conf2, conf3) ==
    LET m1 == _write_register(m, <<REG_PS_CONF_1_2, conf1, conf2>>)
    IN  IF m1.raised THEN m1
        ELSE LET m2 == _write_register(m1, <<REG_PS_CONF_3, conf3>>)
             IN  [m2 EXCEPT !.raised = FALSE, !.val = <<>>]

\* def configure_proximity_sensor(self, conf1, conf2, conf3)
configure_proximity_sensor(m, conf1, conf2, conf3) ==
    LET m1 == _write_register(m, <<REG_PS_CONF_1_2, conf1, conf2>>)
    IN  IF m1.raised THEN m1
        ELSE LET m2 == _write_register(m1, <<REG_PS_CONF_3, conf3>>)
             IN  IF m2.raised THEN m2 ELSE [m2 EXCEPT !.val = <<>>]

\* def configure_ambient_light_sensor(self, conf)
configure_ambient_light_sensor(m, conf) ==
    LET m1 == _write_register(m, <<REG_ALS_CONF, conf>>)
    IN  IF m1.raised THEN m1 ELSE [m1 EXCEPT !.val = <<>>]

\* A keyword argument, or its default when the caller leaves it out.
Arg(kwargs, name, default) ==
    IF name \in DOMAIN kwargs THEN kwargs[name] ELSE default

\* Variant: the ALS default configuration is written whatever als is.
init_ignores_als(m, drvsel, kwargs) ==
    LET ps == Arg(kwargs, "ps", TRUE)
        address == Arg(kwargs, "address", DEFAULT_I2C_ADDR)
        clk == Arg(kwargs, "clk", 100000)
        m1 == port_start(m, drvsel, address, clk)
        m2 == IF ps
              THEN configure_proximity_sensor(m1, DEFAULT_PS_CONF1,
                                              DEFAULT_PS_CONF2, DEFAULT_PS_CONF3)
              ELSE m1
        m3 == configure_ambient_light_sensor(m2, DEFAULT_ALS_CONF)
    IN  IF m1.raised THEN m1
        ELSE IF m2.raised THEN m2
        ELSE m3

\* Variant: an error of port.start() is caught and the sensors are
\* configured all the same.
init_swallows_start_error(m, drvsel, kwargs) ==
    LET ps == Arg(kwargs, "ps", TRUE)
        als == Arg(kwargs, "als", TRUE)
        address == Arg(kwargs, "address", DEFAULT_I2C_ADDR)
        clk == Arg(kwargs, "clk", 100000)
        m1 == [port_start(m, drvsel, address, clk) EXCEPT !.raised = FALSE]
        m2 == IF ps
              THEN configure_proximity_sensor(m1, DEFAULT_PS_CONF1,
                                              DEFAULT_PS_CONF2, DEFAULT_PS_CONF3)
              ELSE m1
        m3 == IF als
              THEN configure_ambient_light_sensor(m2, DEFAULT_ALS_CONF)
              ELSE m2
    IN  IF m2.raised THEN m2 ELSE m3

\* def __init__(self, drvsel, ps=True, als=True, address=DEFAULT_I2C_ADDR,
\*              clk=100000)
__init__(m, drvsel, kwargs) ==
    LET ps == Arg(kwargs, "ps", TRUE)
        als == Arg(kwargs, "als", TRUE)
        address == Arg(kwargs, "address", DEFAULT_I2C_ADDR)
        clk == Arg(kwargs, "clk", 100000)
        m1 == port_start(m, drvsel, address, clk)
        m2 == IF ps
              THEN configure_proximity_sensor(m1, DEFAULT_PS_CONF1,
                                              DEFAULT_PS_CONF2, DEFAULT_PS_CONF3)
              ELSE m1
        m3 == IF als
              THEN configure_ambient_light_sensor(m2, DEFAULT_ALS_CONF)
              ELSE m2
    IN  IF m1.raised THEN m1
        ELSE IF m2.raised THEN m2
        ELSE m3

(* ---------------- the caller ------------------------------------------- *)
\* The interpreter state at the entry of call number `call`.
Enter(call, fail, resp) ==
    [log |-> log, fail |-> fail, raised |-> FALSE, resp |-> resp,
     call |-> call, val |-> <<>>]

\* The caller's view once the call has returned or raised.
Leave(m, op, args) ==
    /\ log' = m.log
    /\ err' = m.raised
    /\ ret' = IF m.raised THEN <<>> ELSE m.val
    /\ last' = [op |-> op, args |-> args, resp |-> m.resp]

KwargsOver(keys) ==
    {[k \in keys |-> full[k]] :
        full \in [ps : BOOLEAN, als : BOOLEAN, address : Addresses, clk : Clocks]}

Init ==
    /\ phase = "new"
    /\ log = <<>>
    /\ nops = 0
    /\ last = [op |-> "none", args |-> <<>>, resp |-> <<>>]
    /\ ret = <<>>
    /\ err = FALSE

\* dev = VCNL4200(drvsel, **kwargs)
Construct ==
    /\ phase = "new"
    /\ \E drvsel \in Drvsels, keys \in SUBSET Keywords, fail \in 0 .. 4 :
         \E kwargs \in KwargsOver(keys) :
            LET m == __init__(Enter(0, fail, <<>>), drvsel, kwargs)
            IN  /\ Leave(m, "__init__", kwargs)
                /\ phase' = IF m.raised THEN "failed" ELSE "ready"
    /\ UNCHANGED nops

\* dev.get_distance()
GetDistance ==
    /\ phase = "ready"
    /\ nops < MaxOps
    /\ \E lo \in DataBytes, hi \in DataBytes, fail \in 0 .. 1 :
          Leave(get_distance(Enter(nops + 1, fail, <<lo, hi>>)),
                "get_distance", <<>>)
    /\ nops' = nops + 1
    /\ UNCHANGED phase

\* dev.get_ambient_light()
GetAmbientLight ==
    /\ phase = "ready"
    /\ nops < MaxOps
    /\ \E lo \in DataBytes, hi \in DataBytes, fail \in 0 .. 1 :
          Leave(get_ambient_light(Enter(nops + 1, fail, <<lo, hi>>)),
                "get_ambient_light", <<>>)
    /\ nops' = nops + 1
    /\ UNCHANGED phase

\* dev.configure_proximity_sensor(conf1, conf2, conf3)
ConfigureProximitySensor ==
    /\ phase = "ready"
    /\ nops < MaxOps
    /\ \E conf1 \in ConfBytes, conf2 \in ConfBytes, conf3 \in ConfBytes,
          fail \in 0 .. 2 :
          Leave(configure_proximity_sensor(Enter(nops + 1, fail, <<>>),
                                           conf1, conf2, conf3),
                "configure_proximity_sensor", <<conf1, conf2, conf3>>)
    /\ nops' = nops + 1
    /\ UNCHANGED phase

\* dev.configure_ambient_light_sensor(conf)
ConfigureAmbientLightSensor ==
    /\ phase = "ready"
    /\ nops < MaxOps
    /\ \E conf \in ConfBytes, fail \in 0 .. 1 :
          Leave(configure_ambient_light_sensor(Enter(nops + 1, fail, <<>>), conf),
                "configure_ambient_light_sensor", <<conf>>)
    /\ nops' = nops + 1
    /\ UNCHANGED phase

Next ==
    \/ Construct
    \/ GetDistance
    \/ GetAmbientLight
    \/ ConfigureProximitySensor
    \/ ConfigureAmbientLightSensor

Spec == Init /\ [][Next]_vars

(* ---------------- decoding over the whole byte range -------------------
   A second specification for the register read: the device has been built
   with default arguments and no bus error, and one read is answered by any
   two bytes.
   ------------------------------------------------------------------------ *)
InitRead ==
    LET m == __init__([log |-> <<>>, fail |-> 0, raised |-> FALSE,
                       resp |-> <<>>, call |-> 0, val |-> <<>>],
                      0, [k \in {} |-> 0])
    IN  /\ phase = "ready"
        /\ log = m.log
        /\ nops = 0
        /\ last = [op |-> "__init__", args |-> [k \in {} |-> 0], resp |-> <<>>]
        /\ ret = <<>>
        /\ err = FALSE

ReadDistance ==
    /\ phase = "ready"
    /\ nops = 0
    /\ \E lo \in Byte, hi \in Byte, fail \in 0 .. 1 :
          Leave(get_distance(Enter(nops + 1, fail, <<lo, hi>>)),
                "get_distance", <<>>)
    /\ nops' = nops + 1
    /\ UNCHANGED phase

ReadAmbientLight ==
    /\ phase = "ready"
    /\ nops = 0
    /\ \E lo \in Byte, hi \in Byte, fail \in 0 .. 1 :
          Leave(get_ambient_light(Enter(nops + 1, fail, <<lo, hi>>)),
                "get_ambient_light", <<>>)
    /\ nops' = nops + 1
    /\ UNCHANGED phase

NextRead ==
    \/ ReadDistance
    \/ ReadAmbientLight

SpecRead == InitRead /\ [][NextRead]_vars

(* ---------------- vocabulary of the properties ------------------------- *)
Tx(op, data, ok, call) == [op |-> op, data |-> data, ok |-> ok, call |-> call]

\* Transactions issued by driver call number k.
CallTxs(k) == SelectSeq(log, LAMBDA t : t.call = k)

\* Transactions of the call that has just returned or raised.
Cur == CallTxs(nops)

\* The log as it was when that call was entered.
Before == SelectSeq(log, LAMBDA t : t.call < nops)

\* Content of configuration register r after the transactions in l: the
\* two bytes of the last write to r that the bus acknowledged, <<>> if none.
ChipReg(l, r) ==
    LET hits == {i \in 1 .. Len(l) : l[i].op = "write" /\ l[i].ok /\ l[i].data[1] = r}
    IN  IF hits = {} THEN <<>>
        ELSE LET i == CHOOSE j \in hits : \A k \in hits : k <= j
             IN  <<l[i].data[2], l[i].data[3]>>

ConfRegs == {REG_ALS_CONF, REG_PS_CONF_1_2, REG_PS_CONF_3}

IsRead == last.op \in {"get_distance", "get_ambient_light"}

(* ---------------- properties ------------------------------------------- *)

\* C1: a read that returns hands back exactly low + high * 256 of the two
\* bytes the bus answered (low byte first), a value in 0 .. 65535.
C1_LittleEndianDecode ==
    (IsRead /\ ~err) =>
        /\ ret = <<last.resp[1] + last.resp[2] * 256>>
        /\ ret[1] \in 0 .. 65535

\* The answer [0x34, 0x12] has been decoded to 0x1234.
C1_Witness ==
    /\ last.op = "get_distance"
    /\ last.resp = <<52, 18>>
    /\ ret = <<4660>>

\* C2: configure_proximity_sensor(conf1, conf2, conf3) that returns has
\* issued exactly the writes [0x03, conf1, conf2] then [0x04, conf3, 0x00];
\* whether it returns or raises, the write to 0x04 is never the first one.
C2_ProximityWriteOrder ==
    (last.op = "configure_proximity_sensor") =>
        LET want == << <<3, last.args[1], last.args[2]>>,
                       <<4, last.args[3], 0>> >>
        IN  /\ Len(Cur) \in 1 .. 2
            /\ \A i \in 1 .. Len(Cur) :
                  Cur[i].op = "write" /\ Cur[i].data = want[i]
            /\ ~err => (Len(Cur) = 2 /\ \A i \in 1 .. 2 : Cur[i].ok)

\* configure_proximity_sensor(0xCA, 0x07, 0x07) has returned.
C2_Witness ==
    /\ last.op = "configure_proximity_sensor"
    /\ last.args = <<202, 7, 7>>
    /\ ~err
    /\ Len(Cur) = 2

\* C3: configure_ambient_light_sensor(conf) issues one bus transaction and
\* no other: a write of [0x00, conf, 0x00], the high byte being the default.
C3_AmbientLightWrite ==
    (last.op = "configure_ambient_light_sensor") =>
        Cur = << Tx("write", <<0, last.args[1], 0>>, ~err, nops) >>

\* configure_ambient_light_sensor(0x07) has returned.
C3_Witness ==
    /\ last.op = "configure_ambient_light_sensor"
    /\ last.args = <<7>>
    /\ ~err
    /\ Len(Cur) = 1

ExpectedInitWrites(ps, als) ==
    (IF ps THEN << <<3, 202, 8>>, <<4, 0, 0>> >> ELSE <<>>)
        \o (IF als THEN << <<0, 0, 0>> >> ELSE <<>>)

\* C4: the writes of a constructor that returns are fixed by the two enable
\* flags: the two proximity default writes if ps, then the ALS default write
\* if als, and nothing else.
C4_InitWritesByFlags ==
    (last.op = "__init__" /\ ~err) =>
        LET want == ExpectedInitWrites(Arg(last.args, "ps", TRUE),
                                       Arg(last.args, "als", TRUE))
        IN  /\ Len(log) = 1 + Len(want)
            /\ \A i \in 1 .. Len(want) :
                  /\ log[i + 1].op = "write"
                  /\ log[i + 1].ok
                  /\ log[i + 1].data = want[i]

\* A constructor called with ps=True, als=False has returned.
C4_Witness ==
    /\ last.op = "__init__"
    /\ ~err
    /\ DOMAIN last.args = {"ps", "als"}
    /\ last.args["ps"]
    /\ ~last.args["als"]
    /\ Len(log) = 3

\* C5: over the lifetime of a device the bus is started once, as the first
\* transaction of all, and never again by any later call.
C5_StartedOnceFirst ==
    /\ phase = "new" => log = <<>>
    /\ phase # "new" =>
          /\ Len(log) >= 1
          /\ log[1].op = "start"
          /\ log[1].call = 0
          /\ \A i \in 2 .. Len(log) : log[i].op # "start"

\* Two calls after a constructor that configured both sensors.
C5_Witness ==
    /\ nops >= 2
    /\ Len(CallTxs(0)) = 4
    /\ Len(log) >= 6

\* C6: when the second write of configure_proximity_sensor fails, the call
\* raises, the first write has been acknowledged and nothing undoes it:
\* PS_CONF_1_2 holds conf1, conf2 while PS_CONF_3 holds what it held before.
C6_NoRollback ==
    (last.op = "configure_proximity_sensor" /\ Len(Cur) = 2 /\ ~Cur[2].ok) =>
        /\ err
        /\ Cur[1] = Tx("write", <<3, last.args[1], last.args[2]>>, TRUE, nops)
        /\ Cur[2] = Tx("write", <<4, last.args[3], 0>>, FALSE, nops)
        /\ ChipReg(log, REG_PS_CONF_1_2) = <<last.args[1], last.args[2]>>
        /\ ChipReg(log, REG_PS_CONF_3) = ChipReg(Before, REG_PS_CONF_3)

\* The chip holds the new CONF1/CONF2 next to a CONF3 that differs from the
\* one the failed call asked for.
C6_Witness ==
    /\ last.op = "configure_proximity_sensor"
    /\ err
    /\ Len(Cur) = 2
    /\ last.args = <<7, 7, 7>>
    /\ ChipReg(log, REG_PS_CONF_1_2) = <<7, 7>>
    /\ ChipReg(log, REG_PS_CONF_3) = <<0, 0>>

\* C7: when the bus start raises, the constructor raises: the caller gets
\* no device and the failed start is the only transaction on the bus.
C7_FailedOpenPropagates ==
    (Len(log) >= 1 /\ ~log[1].ok) =>
        /\ phase = "failed"
        /\ err
        /\ Len(log) = 1

\* The start raised in a constructor asked to configure both sensors.
C7_Witness ==
    /\ phase = "failed"
    /\ Len(log) = 1
    /\ ~log[1].ok
    /\ Arg(last.args, "ps", TRUE)
    /\ Arg(last.args, "als", TRUE)

\* C8: a constructor called without clk starts the bus at 400000, and one
\* called without address starts it at 0x51.
C8_DocumentedDefaults ==
    (last.op = "__init__") =>
        /\ "clk" \notin DOMAIN last.args => log[1].data[3] = 400000
        /\ "address" \notin DOMAIN last.args => log[1].data[2] = 81

\* C9: a failed transaction is the last one of its call (it is neither
\* repeated nor followed by another), and the call raises exactly when its
\* last transaction failed; a constructor that raised hands back no device.
C9_FirstFailureEndsCall ==
    /\ \A i \in 1 .. Len(log) - 1 :
          ~log[i].ok => log[i + 1].call # log[i].call
    /\ last.op # "none" =>
          /\ Len(Cur) >= 1
          /\ err <=> (Len(Cur) >= 1 /\ ~Cur[Len(Cur)].ok)
    /\ phase = "failed" <=> (last.op = "__init__" /\ err)

\* The first proximity write failed in a constructor with ps and als on:
\* neither the PS_CONF_3 write nor the ALS write was issued.
C9_Witness ==
    /\ phase = "failed"
    /\ Arg(last.args, "ps", TRUE)
    /\ Arg(last.args, "als", TRUE)
    /\ Len(log) = 2
    /\ log[2] = Tx("write", <<3, 202, 8>>, FALSE, 0)

\* C10: get_distance issues one write_read of 2 bytes at 0x08 and
\* get_ambient_light one at 0x09, neither issues a write, so they leave the
\* configuration registers as they were; every bus write ever issued is 3
\* bytes long and addressed to register 0x00, 0x03 or 0x04.
C10_AccessFootprint ==
    /\ last.op = "get_distance" =>
          Cur = << Tx("write_read", <<8, 2>>, ~err, nops) >>
    /\ last.op = "get_ambient_light" =>
          Cur = << Tx("write_read", <<9, 2>>, ~err, nops) >>
    /\ IsRead => \A r \in ConfRegs : ChipReg(log, r) = ChipReg(Before, r)
    /\ \A i \in 1 .. Len(log) :
          log[i].op = "write" =>
              /\ Len(log[i].data) = 3
              /\ log[i].data[1] \in {0, 3, 4}

\* Both reads were made on a device whose sensors had been configured.
C10_Witness ==
    /\ nops = 2
    /\ last.op = "get_ambient_light"
    /\ ~err
    /\ Len(log) = 6
    /\ log[5] = Tx("write_read", <<8, 2>>, TRUE, 1)
    /\ ChipReg(log, REG_PS_CONF_1_2) = <<202, 8>>
====
